---------------------------- MODULE Spec2Model ----------------------------
(***************************************************************************)
(* A model of MotionPhotoMuxer.py: the command line driver (main), the     *)
(* directory scan (process_directory, matching_video), validation          *)
(* (validate_directory, validate_media) and the merge pipeline (convert:   *)
(* copy_imgs, run_exiftool, add_xmp_metadata_exiftool, append_vid), run    *)
(* against a file system.                                                  *)
(*                                                                         *)
(* A path is a sequence of one-character strings, so that lower(),         *)
(* endswith(), replace(), splitext(), basename() and join() are computed   *)
(* character by character as Python computes them.  The file system is     *)
(* case sensitive and os.rename replaces an existing file (POSIX).  A      *)
(* file's content is a sequence of byte tokens.                            *)
(***************************************************************************)
EXTENDS Integers, Sequences, FiniteSets, TLC

VARIABLES
    args,       \* the parsed command line: dir, recurse, photo, video, output
    fs,         \* the file system: path -> [kind, data]
    fs0,        \* the file system before the run (never written)
    pc,         \* position of the single thread of control
    status,     \* process exit status (-1 while running)
    outdir,     \* main's local outdir
    pairs,      \* process_directory's file_pairs / main's pairs
    leftover,   \* process_directory's leftover list
    li,         \* number of leftovers already copied
    pi,         \* index of the pair main's loop is at
    cur,        \* convert's locals: photo, video, merged, offset
    log         \* every file-system write and every tool invocation, in order

vars == <<args, fs, fs0, pc, status, outdir, pairs, leftover, li, pi, cur, log>>

(***************************************************************************)
(* Strings                                                                 *)
(***************************************************************************)
Upper == <<"A","B","C","D","E","F","G","H","I","J","K","L","M",
           "N","O","P","Q","R","S","T","U","V","W","X","Y","Z">>

Lowercase == <<"a","b","c","d","e","f","g","h","i","j","k","l","m",
               "n","o","p","q","r","s","t","u","v","w","x","y","z">>

\* str.lower() on one character
LowerChar(c) ==
    IF \E i \in 1..Len(Upper) : Upper[i] = c
    THEN Lowercase[CHOOSE i \in 1..Len(Upper) : Upper[i] = c]
    ELSE c

\* str.lower()
Lower(s) == [i \in 1..Len(s) |-> LowerChar(s[i])]

\* str.endswith(suffix)
EndsWith(s, suffix) ==
    /\ Len(suffix) <= Len(s)
    /\ SubSeq(s, Len(s) - Len(suffix) + 1, Len(s)) = suffix

\* str.endswith(tuple of suffixes)
EndsWithAny(s, suffixes) == \E x \in suffixes : EndsWith(s, x)

\* s[i:].startswith(sub), i counted from 1
MatchAt(s, sub, i) ==
    /\ i + Len(sub) - 1 <= Len(s)
    /\ SubSeq(s, i, i + Len(sub) - 1) = sub

\* sub in s
Contains(s, sub) == \E i \in 1..(Len(s) + 1) : MatchAt(s, sub, i)

\* str.replace(old, new): every non-overlapping occurrence, left to right
RECURSIVE ReplaceFrom(_, _, _, _)
ReplaceFrom(s, old, new, i) ==
    IF i > Len(s) THEN <<>>
    ELSE IF MatchAt(s, old, i)
         THEN new \o ReplaceFrom(s, old, new, i + Len(old))
         ELSE <<s[i]>> \o ReplaceFrom(s, old, new, i + 1)

Replace(s, old, new) == ReplaceFrom(s, old, new, 1)

\* index of the last occurrence of character c in s, 0 if none (str.rfind + 1)
LastIndexOf(s, c) ==
    IF \E i \in 1..Len(s) : s[i] = c
    THEN CHOOSE i \in 1..Len(s) : s[i] = c /\ \A j \in (i+1)..Len(s) : s[j] # c
    ELSE 0

\* os.path.basename
Basename(p) == SubSeq(p, LastIndexOf(p, "/") + 1, Len(p))

\* os.path.dirname
Dirname(p) ==
    LET i == LastIndexOf(p, "/") IN IF i = 0 THEN <<>> ELSE SubSeq(p, 1, i - 1)

\* os.path.join(a, b) for a relative b
Join(a, b) ==
    IF a = <<>> \/ a[Len(a)] = "/" THEN a \o b ELSE a \o <<"/">> \o b

\* os.path.splitext(p)[0]: the extension starts at the last dot of the last
\* component, unless only dots precede it in that component
SplitextRoot(p) ==
    LET sep == LastIndexOf(p, "/")
        dot == LastIndexOf(p, ".")
    IN  IF dot > sep /\ \E k \in (sep + 1)..(dot - 1) : p[k] # "."
        THEN SubSeq(p, 1, dot - 1)
        ELSE p

\* os.path.splitext(p)[1]
SplitextExt(p) == SubSeq(p, Len(SplitextRoot(p)) + 1, Len(p))

(***************************************************************************)
(* Extensions the program names                                            *)
(***************************************************************************)
\* validate_media / process_directory: ('.jpg', '.jpeg', '.heic')
PhotoExts == { <<".","j","p","g">>, <<".","j","p","e","g">>, <<".","h","e","i","c">> }

\* validate_media: ('.mov', '.mp4')
VideoExts == { <<".","m","o","v">>, <<".","m","p","4">> }

\* matching_video: the candidates, in the order they are tried
VideoCandidates == << <<".","m","o","v">>, <<".","m","p","4">>,
                      <<".","M","O","V">>, <<".","M","P","4">> >>

DSStore == <<".","D","S","_","S","t","o","r","e">>

\* main: args.dir + "-output"
OutputSuffix == <<"-","o","u","t","p","u","t">>

\* Python's None, for an option that was not given (no path has this form)
None == <<"None">>

(***************************************************************************)
(* The inputs the model draws from                                         *)
(***************************************************************************)
MaxEntries == 3     \* entries of the input directory, at most
MaxSize == 2        \* bytes in a source file, at most

InDir == <<"i","n">>
OutArg == <<"o","u","t">>

\* names an entry of the input directory may have; "sub" is a subdirectory
Names == <<
    <<"a",".","j","p","g">>,
    <<"a",".","m","o","v">>,
    <<"a",".","m","p","4">>,
    <<"a",".","M","O","V">>,
    <<"a",".","M","P","4">>,
    <<"a",".","h","e","i","c">>,
    <<"a",".","H","E","I","C">>,
    <<"a",".","H","e","i","c">>,
    <<"n","o","t","e","s",".","t","x","t">>,
    <<".","D","S","_","S","t","o","r","e">>,
    <<"s","u","b">>,
    <<"b",".","j","p","g">>,
    <<"c",".","m","p","4">> >>

SubName == <<"s","u","b">>

\* the directory of the scan example: a.jpg, a.mov, b.jpg, c.mp4, notes.txt
ExampleIds == {1, 2, 12, 13, 9}

\* a directory with two pairs and a leftover: a.jpg, a.heic, a.mov, notes.txt
TwoPairsIds == {1, 6, 2, 9}

\* names drawn freely (the last two only occur in the example)
FreeIds == 1..11

IdOf(name) == CHOOSE i \in 1..Len(Names) : Names[i] = name

\* the bytes of source file i: SizeOf(i) bytes that identify the file
SizeOf(i) == 1 + (i % MaxSize)

SourceData(i) == [k \in 1..SizeOf(i) |-> [t |-> "data", v |-> i]]

(***************************************************************************)
(* The file system                                                         *)
(***************************************************************************)
DirEntry == [kind |-> "dir", data |-> <<>>]

FileEntry(d) == [kind |-> "file", data |-> d]

\* os.path.exists
Exists(f, p) == p \in DOMAIN f

\* os.path.isdir
IsDir(f, p) == p \in DOMAIN f /\ f[p].kind = "dir"

\* os.path.isfile
IsFile(f, p) == p \in DOMAIN f /\ f[p].kind = "file"

\* os.path.getsize of a file
GetSize(f, p) == Len(f[p].data)

Put(f, p, e) == [q \in DOMAIN f \cup {p} |-> IF q = p THEN e ELSE f[q]]

Remove(f, p) == [q \in DOMAIN f \ {p} |-> f[q]]

\* os.makedirs(p, exist_ok=True) can run: no component of p is a file
RECURSIVE CanMakedirs(_, _)
CanMakedirs(f, p) ==
    IF p = <<>> THEN TRUE
    ELSE IF Exists(f, p) THEN IsDir(f, p)
    ELSE CanMakedirs(f, Dirname(p))

\* os.makedirs(p, exist_ok=True): p and its missing ancestors become directories
RECURSIVE Makedirs(_, _)
Makedirs(f, p) ==
    IF p = <<>> \/ Exists(f, p) THEN f
    ELSE Put(Makedirs(f, Dirname(p)), p, DirEntry)

\* os.listdir(d), as a set of names
ListDir(f, d) == { Basename(p) : p \in { q \in DOMAIN f : q # <<>> /\ Dirname(q) = d /\ q # d } }

\* the input directory holding the entries ids
InitialFs(ids) ==
    [p \in {InDir} \cup { Join(InDir, Names[i]) : i \in ids } |->
        IF p = InDir THEN DirEntry
        ELSE IF Basename(p) = SubName THEN DirEntry
        ELSE FileEntry(SourceData(IdOf(Basename(p))))]

\* the command lines drawn: directory mode ignores --photo / --video
DirArgs == { InDir, Join(InDir, Names[9]) }
PhotoArgs == { None, <<>>, Join(InDir, Names[1]), Join(InDir, Names[6]), Join(InDir, Names[8]) }
VideoArgs == { None, Join(InDir, Names[2]), Join(InDir, Names[9]) }
OutputArgs == { None, OutArg, InDir }

ArgSets ==
    [dir : DirArgs, recurse : BOOLEAN, photo : {None}, video : {None}, output : OutputArgs]
    \cup
    [dir : {None}, recurse : {FALSE}, photo : PhotoArgs, video : VideoArgs, output : OutputArgs]

EntrySets ==
    { ids \in SUBSET FreeIds : Cardinality(ids) <= MaxEntries } \cup { ExampleIds, TwoPairsIds }

NoCur == [photo |-> <<>>, video |-> <<>>, merged |-> <<>>, offset |-> 0]

Init ==
    /\ args \in ArgSets
    /\ \E ids \in EntrySets : fs = InitialFs(ids)
    /\ fs0 = fs
    /\ pc = "main"
    /\ status = -1
    /\ outdir = <<>>
    /\ pairs = <<>>
    /\ leftover = <<>>
    /\ li = 0
    /\ pi = 1
    /\ cur = NoCur
    /\ log = <<>>

(***************************************************************************)
(* Pure functions of the program                                           *)
(***************************************************************************)
\* validate_media(photo_path, video_path)
validate_media(f, photo_path, video_path) ==
    IF ~Exists(f, photo_path) THEN FALSE
    ELSE IF ~Exists(f, video_path) THEN FALSE
    ELSE IF ~EndsWithAny(Lower(photo_path), PhotoExts) THEN FALSE
    ELSE IF ~EndsWithAny(Lower(video_path), VideoExts) THEN FALSE
    ELSE TRUE

\* matching_video with the upper-case .MOV tried before .mp4
matching_video_MOV_first(f, photo_path) ==
    LET base == SplitextRoot(photo_path)
    IN  IF Exists(f, base \o VideoCandidates[1]) THEN base \o VideoCandidates[1]
        ELSE IF Exists(f, base \o VideoCandidates[3]) THEN base \o VideoCandidates[3]
        ELSE IF Exists(f, base \o VideoCandidates[2]) THEN base \o VideoCandidates[2]
        ELSE IF Exists(f, base \o VideoCandidates[4]) THEN base \o VideoCandidates[4]
        ELSE <<>>

\* matching_video(photo_path); "" is the empty sequence
matching_video(f, photo_path) ==
    LET base == SplitextRoot(photo_path)
    IN  IF Exists(f, base \o VideoCandidates[1]) THEN base \o VideoCandidates[1]
        ELSE IF Exists(f, base \o VideoCandidates[2]) THEN base \o VideoCandidates[2]
        ELSE IF Exists(f, base \o VideoCandidates[3]) THEN base \o VideoCandidates[3]
        ELSE IF Exists(f, base \o VideoCandidates[4]) THEN base \o VideoCandidates[4]
        ELSE <<>>

\* process_directory: the test that makes a listed name the photo of a pair
IsPairPhoto(f, file_dir, file) ==
    /\ IsFile(f, Join(file_dir, file))
    /\ EndsWithAny(Lower(file), PhotoExts)
    /\ matching_video(f, Join(file_dir, file)) # <<>>

\* process_directory: file_pairs after the loop over listing[k..]
RECURSIVE ScanPairs(_, _, _, _)
ScanPairs(f, file_dir, listing, k) ==
    IF k > Len(listing) THEN <<>>
    ELSE IF Contains(listing[k], DSStore) THEN ScanPairs(f, file_dir, listing, k + 1)
    ELSE IF IsPairPhoto(f, file_dir, listing[k])
         THEN << [img |-> Join(file_dir, listing[k]),
                  vid |-> matching_video(f, Join(file_dir, listing[k]))] >>
              \o ScanPairs(f, file_dir, listing, k + 1)
         ELSE ScanPairs(f, file_dir, listing, k + 1)

\* process_directory: leftover_cand after the loop over listing[k..]
RECURSIVE ScanCand(_, _, _, _)
ScanCand(f, file_dir, listing, k) ==
    IF k > Len(listing) THEN <<>>
    ELSE IF Contains(listing[k], DSStore) THEN ScanCand(f, file_dir, listing, k + 1)
    ELSE IF IsPairPhoto(f, file_dir, listing[k])
         THEN ScanCand(f, file_dir, listing, k + 1)
         ELSE << Join(file_dir, listing[k]) >> \o ScanCand(f, file_dir, listing, k + 1)

\* process_directory: allvideos
AllVideos(file_pairs) == { Lower(file_pairs[k].vid) : k \in 1..Len(file_pairs) }

\* process_directory: leftover, the candidates whose lowercased path is no pair's video
RECURSIVE FilterLeftover(_, _, _)
FilterLeftover(cand, allvideos, k) ==
    IF k > Len(cand) THEN <<>>
    ELSE IF Lower(cand[k]) \notin allvideos
         THEN << cand[k] >> \o FilterLeftover(cand, allvideos, k + 1)
         ELSE FilterLeftover(cand, allvideos, k + 1)

\* os.listdir returns the names in an arbitrary order: every enumeration of them
Listings(names) ==
    { l \in [1..Cardinality(names) -> names] :
        \A i, j \in 1..Cardinality(names) : i # j => l[i] # l[j] }

\* add_xmp_metadata_exiftool: the name the file is renamed to
RenamedFile(merged_file) ==
    Replace(Replace(merged_file, <<".","H","E","I","C">>, <<".","J","P","G">>),
            <<".","h","e","i","c">>, <<".","j","p","g">>)

\* the offset taken from the photo instead of the video
OffsetOfPhoto(f, photo_path, video_path) == GetSize(f, photo_path)

\* convert: offset = os.path.getsize(video_path)
Offset(f, photo_path, video_path) == GetSize(f, video_path)

\* exiftool -overwrite_original -xmp:MicroVideoOffset=offset ...: the XMP
\* block it writes replaces the one the file had, the rest is kept
XmpBlock(offset) == [t |-> "xmp", v |-> offset]

IsXmp(b) == b.t = "xmp"

NotXmp(b) == b.t # "xmp"

Tagged(data, offset) == << XmpBlock(offset) >> \o SelectSeq(data, NotXmp)

\* run_exiftool: what the tool may do with a file: write the tags ("ok"), fail
\* and leave the file as it is ("fail"), or refuse a file named .heic whose
\* content is a JPEG with 'looks more like a JPEG' ("jpeg")
ToolOutcomes(file) ==
    IF EndsWith(Lower(file), <<".","h","e","i","c">>)
    THEN {"ok", "fail", "jpeg"}
    ELSE {"ok", "fail"}

\* append_vid: the merged file's bytes after the append
Appended(f, merged_path, video_path) == f[merged_path].data \o f[video_path].data

\* bool(x) of an optional string argument
Truthy(x) == x # None /\ x # <<>>

(***************************************************************************)
(* The run                                                                 *)
(***************************************************************************)
\* one entry of log: op on path a (and b), for pair number pr (0: no pair), with
\* a number n, a tool outcome r and the bytes d the target held before the write
Event(op, pr, a, b, n, r, d) ==
    [op |-> op, pr |-> pr, a |-> a, b |-> b, n |-> n, r |-> r, d |-> d]

\* exit(1)
Exit ==
    /\ pc' = "exit"
    /\ status' = 1

\* an uncaught exception ends the interpreter with status 1
Crash ==
    /\ pc' = "crash"
    /\ status' = 1

Terminated == pc \in {"done", "exit", "crash"}

\* the number of the pair convert is working on
PairNo == IF args.dir # None THEN pi ELSE 1

\* main, lines 230-231: outdir and os.makedirs(outdir, exist_ok=True)
Main ==
    /\ pc = "main"
    /\ IF args.output = None /\ args.dir = None
       THEN \* None + "-output" raises TypeError
            /\ Crash
            /\ UNCHANGED <<fs, outdir, log>>
       ELSE LET od == IF args.output # None THEN args.output
                      ELSE args.dir \o OutputSuffix
            IN  /\ outdir' = od
                /\ IF CanMakedirs(fs, od)
                   THEN /\ fs' = Makedirs(fs, od)
                        /\ log' = IF Exists(fs, od) THEN log
                                  ELSE Append(log, Event("makedirs", 0, od, <<>>, 0, "", <<>>))
                        /\ pc' = IF args.dir # None THEN "validate_directory"
                                 ELSE "check_args"
                        /\ UNCHANGED status
                   ELSE /\ Crash
                        /\ UNCHANGED <<fs, log>>
    /\ UNCHANGED <<args, fs0, pairs, leftover, li, pi, cur>>

\* validate_directory(args.dir)
ValidateDirectory ==
    /\ pc = "validate_directory"
    /\ IF ~Exists(fs, args.dir) \/ ~IsDir(fs, args.dir)
       THEN Exit
       ELSE pc' = "process_directory" /\ UNCHANGED status
    /\ UNCHANGED <<args, fs, fs0, outdir, pairs, leftover, li, pi, cur, log>>

\* process_directory without its recursion check: the scan runs under --recurse too
ProcessDirectoryUnchecked ==
    /\ pc = "process_directory"
    /\ \E listing \in Listings(ListDir(fs, args.dir)) :
            LET file_pairs == ScanPairs(fs, args.dir, listing, 1)
                leftover_cand == ScanCand(fs, args.dir, listing, 1)
            IN  /\ pairs' = file_pairs
                /\ leftover' = FilterLeftover(leftover_cand, AllVideos(file_pairs), 1)
                /\ pc' = "copy_leftover"
                /\ UNCHANGED status
    /\ UNCHANGED <<args, fs, fs0, outdir, li, pi, cur, log>>

\* process_directory, lines 191-214: the recursion check and the scan
ProcessDirectory ==
    /\ pc = "process_directory"
    /\ IF args.recurse
       THEN /\ Exit
            /\ UNCHANGED <<pairs, leftover>>
       ELSE \E listing \in Listings(ListDir(fs, args.dir)) :
                LET file_pairs == ScanPairs(fs, args.dir, listing, 1)
                    leftover_cand == ScanCand(fs, args.dir, listing, 1)
                IN  /\ pairs' = file_pairs
                    /\ leftover' = FilterLeftover(leftover_cand, AllVideos(file_pairs), 1)
                    /\ pc' = "copy_leftover"
                    /\ UNCHANGED status
    /\ UNCHANGED <<args, fs, fs0, outdir, li, pi, cur, log>>

\* process_directory, lines 216-218: shutil.copy2(lo, outdir) of the next leftover.
\* copy2 raises SameFileError when lo is already the file outdir/basename(lo), and
\* IsADirectoryError when lo, or that target, is a directory
CopyLeftover ==
    /\ pc = "copy_leftover"
    /\ li < Len(leftover)
    /\ LET lo == leftover[li + 1]
           dst == Join(outdir, Basename(lo))
       IN  IF dst = lo \/ IsDir(fs, lo) \/ IsDir(fs, dst)
           THEN /\ Crash
                /\ UNCHANGED <<fs, li, log>>
           ELSE /\ fs' = Put(fs, dst, FileEntry(fs[lo].data))
                /\ li' = li + 1
                /\ log' = Append(log, Event("copy2", 0, lo, dst, 0, "", <<>>))
                /\ UNCHANGED <<pc, status>>
    /\ UNCHANGED <<args, fs0, outdir, pairs, leftover, pi, cur>>

\* process_directory, lines 219-222: return file_pairs to main's loop
ReturnPairs ==
    /\ pc = "copy_leftover"
    /\ li = Len(leftover)
    /\ pc' = "loop"
    /\ pi' = 1
    /\ UNCHANGED <<args, fs, fs0, status, outdir, pairs, leftover, li, cur, log>>

\* main, lines 236-238: the next pair, validated
Loop ==
    /\ pc = "loop"
    /\ IF pi > Len(pairs)
       THEN /\ pc' = "done"
            /\ status' = 0
            /\ UNCHANGED <<pi, cur>>
       ELSE IF validate_media(fs, pairs[pi].img, pairs[pi].vid)
            THEN /\ cur' = [photo |-> pairs[pi].img, video |-> pairs[pi].vid,
                            merged |-> <<>>, offset |-> 0]
                 /\ pc' = "copy_imgs"
                 /\ UNCHANGED <<pi, status>>
            ELSE /\ pi' = pi + 1
                 /\ UNCHANGED <<pc, status, cur>>
    /\ UNCHANGED <<args, fs, fs0, outdir, pairs, leftover, li, log>>

\* main, lines 240-249: the argument check of single-pair mode
CheckArgs ==
    /\ pc = "check_args"
    /\ IF args.photo = None /\ args.video = None
       THEN Exit /\ UNCHANGED cur
       ELSE IF Truthy(args.photo) # Truthy(args.video)
            THEN Exit /\ UNCHANGED cur
            ELSE IF validate_media(fs, args.photo, args.video)
                 THEN /\ cur' = [photo |-> args.photo, video |-> args.video,
                                 merged |-> <<>>, offset |-> 0]
                      /\ pc' = "copy_imgs"
                      /\ UNCHANGED status
                 ELSE /\ pc' = "done"
                      /\ status' = 0
                      /\ UNCHANGED cur
    /\ UNCHANGED <<args, fs, fs0, outdir, pairs, leftover, li, pi, log>>

\* convert calling merge_files (line 153) in place of copy_imgs: the video is
\* written behind the photo before the tool runs
MergeFiles ==
    /\ pc = "copy_imgs"
    /\ LET out_path == Join(outdir, Basename(cur.photo))
           made == Makedirs(fs, Dirname(out_path))
           bytes == IF out_path = cur.photo THEN <<>> ELSE fs[cur.photo].data
       IN  /\ fs' = Put(made, out_path, FileEntry(bytes \o fs[cur.video].data))
           /\ cur' = [cur EXCEPT !.merged = out_path]
           /\ log' = log \o << Event("copy_imgs", PairNo, cur.photo, out_path, 0, "", <<>>),
                               Event("append", PairNo, out_path, cur.video,
                                     GetSize(fs, cur.video), "", bytes) >>
           /\ pc' = "exiftool"
           /\ UNCHANGED status
    /\ UNCHANGED <<args, fs0, outdir, pairs, leftover, li, pi>>

\* copy_imgs: open(out_path, "wb") truncates out_path before the photo is read
CopyImgs ==
    /\ pc = "copy_imgs"
    /\ LET out_path == Join(outdir, Basename(cur.photo))
           made == Makedirs(fs, Dirname(out_path))
           bytes == IF out_path = cur.photo THEN <<>> ELSE fs[cur.photo].data
       IN  IF ~CanMakedirs(fs, Dirname(out_path)) \/ IsDir(made, out_path)
              \/ IsDir(fs, cur.photo)
           THEN /\ Crash
                /\ UNCHANGED <<fs, cur, log>>
           ELSE /\ fs' = Put(made, out_path, FileEntry(bytes))
                /\ cur' = [cur EXCEPT !.merged = out_path]
                /\ log' = Append(log, Event("copy_imgs", PairNo, cur.photo, out_path,
                                            0, "", <<>>))
                /\ pc' = "exiftool"
                /\ UNCHANGED status
    /\ UNCHANGED <<args, fs0, outdir, pairs, leftover, li, pi>>

\* run_exiftool raising on a failed run, as subprocess.run(check=True) would
RunExiftoolChecked ==
    /\ pc = "exiftool"
    /\ LET offset == Offset(fs, cur.photo, cur.video)
       IN  \E r \in ToolOutcomes(cur.merged) :
            /\ fs' = IF r = "ok"
                     THEN Put(fs, cur.merged, FileEntry(Tagged(fs[cur.merged].data, offset)))
                     ELSE fs
            /\ cur' = [cur EXCEPT !.offset = offset]
            /\ log' = Append(log, Event("exiftool", PairNo, cur.merged, <<>>, offset, r,
                                        fs[cur.merged].data))
            /\ IF r = "ok"
               THEN pc' = "append_vid" /\ UNCHANGED status
               ELSE Crash
    /\ UNCHANGED <<args, fs0, outdir, pairs, leftover, li, pi>>

\* convert, line 162, and add_xmp_metadata_exiftool, lines 96-97 and 106-108:
\* the offset, the first run of the tool and the look at its stderr
RunExiftool ==
    /\ pc = "exiftool"
    /\ LET offset == Offset(fs, cur.photo, cur.video)
       IN  \E r \in ToolOutcomes(cur.merged) :
            /\ fs' = IF r = "ok"
                     THEN Put(fs, cur.merged, FileEntry(Tagged(fs[cur.merged].data, offset)))
                     ELSE fs
            /\ cur' = [cur EXCEPT !.offset = offset]
            /\ log' = Append(log, Event("exiftool", PairNo, cur.merged, <<>>, offset, r,
                                        fs[cur.merged].data))
            /\ pc' = IF r = "jpeg" THEN "rename" ELSE "append_vid"
    /\ UNCHANGED <<args, fs0, status, outdir, pairs, leftover, li, pi>>

\* add_xmp_metadata_exiftool, lines 98-101: os.rename(merged_file, new_file)
Rename ==
    /\ pc = "rename"
    /\ LET new_file == RenamedFile(cur.merged)
       IN  IF new_file # cur.merged
              /\ (IsDir(fs, new_file) \/ ~IsDir(fs, Dirname(new_file)))
           THEN /\ Crash
                /\ UNCHANGED <<fs, cur, log>>
           ELSE /\ fs' = Put(Remove(fs, cur.merged), new_file, fs[cur.merged])
                /\ cur' = [cur EXCEPT !.merged = new_file]
                /\ log' = Append(log, Event("rename", PairNo, cur.merged, new_file, 0, "",
                                            IF Exists(fs, new_file) THEN fs[new_file].data
                                            ELSE <<>>))
                /\ pc' = "exiftool_again"
                /\ UNCHANGED status
    /\ UNCHANGED <<args, fs0, outdir, pairs, leftover, li, pi>>

\* add_xmp_metadata_exiftool, lines 102-105: the second run, whose result is only logged
RunExiftoolAgain ==
    /\ pc = "exiftool_again"
    /\ \E r \in ToolOutcomes(cur.merged) :
        /\ fs' = IF r = "ok"
                 THEN Put(fs, cur.merged, FileEntry(Tagged(fs[cur.merged].data, cur.offset)))
                 ELSE fs
        /\ log' = Append(log, Event("exiftool", PairNo, cur.merged, <<>>, cur.offset, r,
                                    fs[cur.merged].data))
    /\ pc' = "append_vid"
    /\ UNCHANGED <<args, fs0, status, outdir, pairs, leftover, li, pi, cur>>

\* append_vid, and convert's return to main
AppendVid ==
    /\ pc = "append_vid"
    /\ IF IsDir(fs, cur.video)
       THEN /\ Crash
            /\ UNCHANGED <<fs, log, pi>>
       ELSE /\ fs' = Put(fs, cur.merged, FileEntry(Appended(fs, cur.merged, cur.video)))
            /\ log' = Append(log, Event("append", PairNo, cur.merged, cur.video,
                                        GetSize(fs, cur.video), "", fs[cur.merged].data))
            /\ IF args.dir # None
               THEN /\ pi' = pi + 1
                    /\ pc' = "loop"
                    /\ UNCHANGED status
               ELSE /\ pc' = "done"
                    /\ status' = 0
                    /\ UNCHANGED pi
    /\ UNCHANGED <<args, fs0, outdir, pairs, leftover, li, cur>>

Next ==
    \/ Main
    \/ ValidateDirectory
    \/ ProcessDirectory
    \/ CopyLeftover
    \/ ReturnPairs
    \/ Loop
    \/ CheckArgs
    \/ CopyImgs
    \/ RunExiftool
    \/ Rename
    \/ RunExiftoolAgain
    \/ AppendVid

Spec == Init /\ [][Next]_vars

(***************************************************************************)
(* Properties                                                              *)
(***************************************************************************)
Last(s) == s[Len(s)]

\* the indices of the log entries of pair k with operation op
EventsOf(k, op) == { i \in 1..Len(log) : log[i].pr = k /\ log[i].op = op }

\* the scan is over: pairs is what process_directory returned
Scanned == pc \in {"loop", "copy_imgs", "exiftool", "rename", "exiftool_again",
                   "append_vid", "done"} /\ args.dir # None

\* the four candidates of photo path p, in priority order
Candidate(p, i) == SplitextRoot(p) \o VideoCandidates[i]

\* r is the first existing candidate of p in f, or "" when there is none
FirstExistingCandidate(f, p, r) ==
    /\ (r = <<>>) <=> (\A i \in 1..4 : ~Exists(f, Candidate(p, i)))
    /\ r # <<>> =>
         \E i \in 1..4 :
            /\ r = Candidate(p, i)
            /\ Exists(f, r)
            /\ \A j \in 1..(i - 1) : ~Exists(f, Candidate(p, j))

\* C1: for every path P and every set of files on disk, matching_video(P) is
\* the first existing one of stem.mov, stem.mp4, stem.MOV, stem.MP4, in that
\* order, and the empty string iff none of the four exists: so it is for the
\* files on disk when the scan starts, and for the pairs the scan returned.
C1_MatchingVideo ==
    /\ pc = "process_directory" =>
         \A p \in DOMAIN fs : FirstExistingCandidate(fs, p, matching_video(fs, p))
    /\ Scanned =>
         \A k \in 1..Len(pairs) : FirstExistingCandidate(fs0, pairs[k].img, pairs[k].vid)

\* C1's case: a scan has paired a photo with its .MOV video although the .MP4
\* of the same stem exists too
C1_Witness ==
    /\ Scanned
    /\ \E k \in 1..Len(pairs) :
        /\ pairs[k].vid = Candidate(pairs[k].img, 3)
        /\ Exists(fs0, Candidate(pairs[k].img, 4))

\* convert has just returned: the last write is append_vid's
ConvertDone == log # <<>> /\ Last(log).op = "append"

ScanEntered == args.dir # None /\ ~args.recurse /\ IsDir(fs0, args.dir)

\* the immediate children of the scanned directory, bookkeeping entries excluded
Children ==
    { Join(args.dir, n) : n \in { m \in ListDir(fs0, args.dir) : ~Contains(m, DSStore) } }

\* the children that are photos with a matching video
PairedPhotos ==
    { c \in Children :
        /\ IsFile(fs0, c)
        /\ EndsWithAny(Lower(Basename(c)), PhotoExts)
        /\ matching_video(fs0, c) # <<>> }

\* the leftovers as specified: not the photo of a pair, and not, lowercased,
\* the lowercased video of a pair
ExpectedLeftovers ==
    { c \in Children \ PairedPhotos :
        \A q \in PairedPhotos : Lower(c) # Lower(matching_video(fs0, q)) }

Range(s) == { s[i] : i \in 1..Len(s) }

\* the pairs and the leftovers the scan computed are those specified, and
\* what the scan has copied so far are leftovers only
ScanPartition ==
    (ScanEntered /\ pc \notin {"main", "validate_directory", "process_directory"}) =>
        /\ Range(pairs) = { [img |-> c, vid |-> matching_video(fs0, c)] : c \in PairedPhotos }
        /\ Len(pairs) = Cardinality(PairedPhotos)
        /\ Range(leftover) = ExpectedLeftovers
        /\ Len(leftover) = Cardinality(ExpectedLeftovers)
        /\ \A i \in 1..Len(log) : log[i].op = "copy2" => log[i].a \in ExpectedLeftovers
        /\ fs0 = InitialFs(ExampleIds) /\ args.dir = InDir =>
            /\ pairs = << [img |-> Join(InDir, Names[1]), vid |-> Join(InDir, Names[2])] >>
            /\ Range(leftover) = { Join(InDir, Names[12]), Join(InDir, Names[13]),
                                   Join(InDir, Names[9]) }

\* C3: when a directory-mode run ends, the pairs are exactly (P, matching_video(P))
\* for the photo files P with a matching video, the leftovers are the entries
\* that are neither the photo of a pair nor, lowercased, the video of one, every
\* leftover has been copied to the output directory, and no member of a pair
\* has been copied by the scan.
C3_ScanCopiesEveryLeftover ==
    (ScanEntered /\ Terminated) =>
        /\ Range(pairs) = { [img |-> c, vid |-> matching_video(fs0, c)] : c \in PairedPhotos }
        /\ Range(leftover) = ExpectedLeftovers
        /\ \A c \in ExpectedLeftovers :
            /\ \E i \in 1..Len(log) : log[i].op = "copy2" /\ log[i].a = c
            /\ IsFile(fs, Join(outdir, Basename(c)))
        /\ \A i \in 1..Len(log) : log[i].op = "copy2" => log[i].a \in ExpectedLeftovers

\* the log entries that write to path p
WritesTo(e, p) ==
    \/ e.op \in {"copy2", "copy_imgs", "rename"} /\ e.b = p
    \/ e.op = "append" /\ e.a = p
    \/ e.op = "exiftool" /\ e.r = "ok" /\ e.a = p

\* C4: no two pairs target the same output path: the files the videos are
\* appended to are pairwise distinct, and a merged file is not written again
\* once its video has been appended.
C4_DistinctOutputs ==
    \A i \in 1..Len(log) :
        log[i].op = "append" =>
            \A j \in (i + 1)..Len(log) : ~WritesTo(log[j], log[i].a)

HeicExts == { <<".","h","e","i","c">> }

\* the .jpg equivalent of a .heic extension, case preserved
JpgEquivalent(ext, new) ==
    /\ Lower(new) = <<".","j","p","g">>
    /\ ext = <<".","h","e","i","c">> => new = <<".","j","p","g">>
    /\ ext = <<".","H","E","I","C">> => new = <<".","J","P","G">>

\* the log entries of pair k with an operation of ops, as indices in order
RECURSIVE IndicesFrom(_, _, _)
IndicesFrom(k, ops, i) ==
    IF i > Len(log) THEN <<>>
    ELSE IF log[i].pr = k /\ log[i].op \in ops
         THEN <<i>> \o IndicesFrom(k, ops, i + 1)
         ELSE IndicesFrom(k, ops, i + 1)

\* C5: when convert returns for a copy named .heic (in any letter case) that
\* the tool said 'looks more like a JPEG', the copy has been renamed, only its
\* extension changed to the .jpg equivalent, the tool was run exactly twice
\* (on the original name, then on the new one) and the video was appended to
\* the renamed file; without the diagnostic the tool was run once and nothing
\* was renamed.
C5_HeicRenamedToJpg ==
    ConvertDone =>
        LET k == Last(log).pr
            copy == log[IndicesFrom(k, {"copy_imgs"}, 1)[1]].b
            runs == IndicesFrom(k, {"exiftool"}, 1)
            renames == IndicesFrom(k, {"rename"}, 1)
        IN  IF EndsWithAny(Lower(copy), HeicExts) /\ log[runs[1]].r = "jpeg"
            THEN /\ Len(renames) = 1
                 /\ Len(runs) = 2
                 /\ log[runs[1]].a = copy
                 /\ LET new == log[renames[1]].b
                    IN  /\ SplitextRoot(new) = SplitextRoot(copy)
                        /\ JpgEquivalent(SplitextExt(copy), SplitextExt(new))
                        /\ log[runs[2]].a = new
                        /\ Last(log).a = new
                        /\ IsFile(fs, new)
            ELSE /\ Len(renames) = 0
                 /\ Len(runs) = 1

\* C5 as the code has it: the same, for a copy whose extension is exactly
\* .heic or .HEIC
HeicRenamedWhenCaseIsUniform ==
    ConvertDone =>
        LET k == Last(log).pr
            copy == log[IndicesFrom(k, {"copy_imgs"}, 1)[1]].b
            runs == IndicesFrom(k, {"exiftool"}, 1)
            renames == IndicesFrom(k, {"rename"}, 1)
        IN  IF SplitextExt(copy) \in { <<".","h","e","i","c">>, <<".","H","E","I","C">> }
               /\ log[runs[1]].r = "jpeg"
            THEN /\ Len(renames) = 1
                 /\ Len(runs) = 2
                 /\ log[runs[1]].a = copy
                 /\ LET new == log[renames[1]].b
                    IN  /\ SplitextRoot(new) = SplitextRoot(copy)
                        /\ JpgEquivalent(SplitextExt(copy), SplitextExt(new))
                        /\ log[runs[2]].a = new
                        /\ Last(log).a = new
                        /\ IsFile(fs, new)
            ELSE log[runs[1]].r # "jpeg" => Len(renames) = 0 /\ Len(runs) = 1

\* C6 as stated: a run with --dir and --recurse ends with a non-zero exit
\* status having written nothing at all: the file system is as it was, no
\* output directory has been created.
C6_RecurseWritesNothing ==
    (args.dir # None /\ args.recurse /\ Terminated) =>
        /\ status # 0
        /\ fs = fs0
        /\ log = <<>>

\* C6, amended: a run with --dir and --recurse ends with a non-zero exit
\* status having copied no leftover, converted no pair and created or changed
\* no file; the one change it may have made is the creation of the output
\* directory.
C6_RecurseWritesNoFile ==
    (args.dir # None /\ args.recurse /\ Terminated) =>
        /\ status # 0
        /\ \A p \in DOMAIN fs0 : Exists(fs, p) /\ fs[p] = fs0[p]
        /\ \A p \in DOMAIN fs \ DOMAIN fs0 : p = outdir /\ IsDir(fs, p)
        /\ \A i \in 1..Len(log) : log[i].op = "makedirs" /\ log[i].a = outdir
        /\ pairs = <<>>

\* C6's case: the recursion check has ended a run over a directory that holds
\* a pair and a leftover, after the output directory was created
C6_Witness ==
    /\ args.dir # None /\ args.recurse
    /\ pc = "exit"
    /\ IsDir(fs0, args.dir)
    /\ PairedPhotos # {}
    /\ Children \ PairedPhotos # {}
    /\ outdir \in DOMAIN fs \ DOMAIN fs0

\* C7: a run without --dir in which --photo, --video or both are missing ends
\* with a non-zero exit status, by the argument check's exit(1), before any
\* file or directory has been created or changed, whatever --output is.
C7_ArgumentCheckFirst ==
    (args.dir = None /\ (args.photo = None \/ args.video = None) /\ Terminated) =>
        /\ status # 0
        /\ pc = "exit"
        /\ fs = fs0

\* the pairs convert has been started for: those that passed validation
Converted == { log[i].pr : i \in { j \in 1..Len(log) : log[j].op = "copy_imgs" } }

ToolHasRun == \E i \in 1..Len(log) : log[i].op = "exiftool"

\* C8: whatever the metadata tool returns, the run goes on: once the tool has
\* run the program never ends by an exception or an exit(1); back in main's
\* loop the pair just converted has its video appended; and when the run has
\* ended, every pair convert was started for has had its video appended, and
\* in directory mode every pair of the list that validates was converted.
C8_ToolFailureNotFatal ==
    ToolHasRun =>
        /\ pc \notin {"crash", "exit"}
        /\ pc = "loop" => EventsOf(pi - 1, "append") # {}
        /\ Terminated =>
            /\ pc = "done"
            /\ status = 0
            /\ \A k \in Converted : EventsOf(k, "append") # {}
            /\ args.dir # None =>
                \A k \in 1..Len(pairs) :
                    validate_media(fs0, pairs[k].img, pairs[k].vid) =>
                        EventsOf(k, "append") # {}

\* C8's case: the tool failed on the first of two pairs, and both were merged
C8_Witness ==
    /\ pc = "done"
    /\ Len(pairs) >= 2
    /\ \E i \in EventsOf(1, "exiftool") : log[i].r = "fail"
    /\ \A i \in EventsOf(1, "exiftool") : log[i].r # "ok"
    /\ EventsOf(1, "append") # {}
    /\ EventsOf(2, "append") # {}

PairOps == {"copy_imgs", "exiftool", "rename", "append"}

\* the operations logged for pair k, in order
OpsOf(k) ==
    LET idx == IndicesFrom(k, PairOps, 1) IN [i \in 1..Len(idx) |-> log[idx[i]].op]

IsPrefix(s, t) == Len(s) <= Len(t) /\ SubSeq(t, 1, Len(s)) = s

\* C9: every leftover copy precedes the first step of the first pair; pairs
\* are worked on in the order of the pair list; each pair's steps are copy,
\* tool run (then, after the diagnostic, rename and second tool run), append,
\* and no step of a pair comes after a step of a later pair.
C9_Sequential ==
    /\ \A i \in 1..Len(log) : \A j \in (i + 1)..Len(log) :
        /\ log[i].op \in PairOps => log[j].op \in PairOps
        /\ log[i].op \in PairOps => log[i].pr <= log[j].pr
    /\ (\E i \in 1..Len(log) : log[i].op \in PairOps) /\ args.dir # None =>
        /\ li = Len(leftover)
        /\ Cardinality({ i \in 1..Len(log) : log[i].op = "copy2" }) = Len(leftover)
    /\ \A k \in Converted :
        /\ \/ IsPrefix(OpsOf(k), <<"copy_imgs", "exiftool", "append">>)
           \/ IsPrefix(OpsOf(k), <<"copy_imgs", "exiftool", "rename", "exiftool", "append">>)
        /\ args.dir # None =>
            /\ k \in 1..Len(pairs)
            /\ \A i \in EventsOf(k, "copy_imgs") : log[i].a = pairs[k].img
            /\ \A i \in EventsOf(k, "append") : log[i].b = pairs[k].vid

\* C9's case: a run that copied a leftover and then merged two pairs, the
\* first of them through the rename
C9_Witness ==
    /\ pc = "done"
    /\ \E i \in 1..Len(log) : log[i].op = "copy2"
    /\ OpsOf(1) = <<"copy_imgs", "exiftool", "rename", "exiftool", "append">>
    /\ OpsOf(2) = <<"copy_imgs", "exiftool", "append">>

\* C10: the run never alters its inputs: every file and directory that was
\* there before the run is still there, under its path, with its content.
C10_InputsUnaltered ==
    \A p \in DOMAIN fs0 : Exists(fs, p) /\ fs[p] = fs0[p]

\* C10 as the code has it: the same, when the output directory does not hold
\* the photos
InputsUnalteredElsewhere ==
    outdir # InDir => \A p \in DOMAIN fs0 : Exists(fs, p) /\ fs[p] = fs0[p]

=============================================================================
